---------------------------- MODULE Spec2Model ----------------------------
(***************************************************************************)
(* ReadyOrNot / vibecheck: a rule-based readiness scanner.                 *)
(*                                                                         *)
(* The module models these layers of the repository:                       *)
(*   - the scoring engine (runScoringAgent), under SpecScore;              *)
(*   - the orchestrator (runAudit) and its five category agents, under     *)
(*     Spec;                                                               *)
(*   - the editor layer (scanDocument of both extensions), under SpecScan; *)
(*   - the ignore matcher and the workspace scan command, under SpecIgnore.*)
(*                                                                         *)
(* Source text is abstracted to a sequence of lexical items ("tokens"):    *)
(* one token stands for one piece of text that a rule's pattern or a       *)
(* structural predicate matches as a whole, "nl" is a line feed.  A        *)
(* token's index in the sequence plays the role of the character offset.   *)
(* The report's timestamp is left out of the report record.                *)
(***************************************************************************)
EXTENDS Integers, Sequences, FiniteSets

VARIABLES
    vulns,      \* SpecScore: the finding list handed to runScoringAgent
    scored,     \* SpecScore: the FinalAuditReport it returned
    files,      \* Spec: the WorkspaceFile[] argument of runAudit
    done,       \* Spec: the agents whose promise has settled
    firstDone,  \* Spec: the agent whose promise settled first ("" before that)
    results,    \* Spec: agent -> the finding list its promise resolved to
    report,     \* Spec: <<>> while runAudit is pending, <<r>> once it returned r
    docs,       \* SpecScan: document id -> the open text document
    ig,         \* SpecScan: the relative paths the ignore matcher `ig` ignores
    vcLastIndex, \* SpecScan: vibecheck rule -> lastIndex of its shared RegExp
    vcDiag,     \* SpecScan: vibecheck diagnosticCollection, <<>> for no entry
    vcRescanned, \* SpecScan: vibecheck has scanned some document a second time
    roCalls,    \* SpecScan: the calls of ReadyOrNot's async scanDocument
    roDiag,     \* SpecScan: ReadyOrNot diagnosticCollection, <<>> for no entry
    gitignore,  \* SpecIgnore: the relative paths the .gitignore on disk matches
    cmd,        \* SpecIgnore: the pending loads and the scan command's progress
    opened      \* SpecIgnore: the documents opened while .gitignore matched them

scoreVars == <<vulns, scored>>

auditVars == <<files, done, firstDone, results, report>>

ignoreVars == <<gitignore, cmd, opened>>

scanVars ==
    <<docs, ig, vcLastIndex, vcDiag, vcRescanned, roCalls, roDiag, ignoreVars>>

vars == <<scoreVars, auditVars, scanVars>>

---------------------------------------------------------------------------
(* Bounds of the model *)

MaxFindings == 7
MaxFiles == 2
MaxTokens == 2
MaxDocTokens == 2
MaxCalls == 2
MaxFileTokens == 2
MaxEditTokens == 2
MaxLineTokens == 3

(* Program constants *)

ErrorPenalty == 25
WarningPenalty == 10
InfoPenalty == 2
PerfectScore == 100
ScoreFloor == 0
GoThreshold == 50

---------------------------------------------------------------------------
(* Generic helpers *)

Max(a, b) == IF a >= b THEN a ELSE b



Range(s) == {s[i] : i \in 1..Len(s)}

\* Array.prototype.filter: the elements satisfying Test(s, i), in order.
RECURSIVE FilterIdx(_, _, _)
FilterIdx(s, keep, i) ==
    IF i > Len(s) THEN <<>>
    ELSE (IF i \in keep THEN <<s[i]>> ELSE <<>>) \o FilterIdx(s, keep, i + 1)

---------------------------------------------------------------------------
(* Findings (type Vulnerability) *)

Severities == {"ERROR", "WARNING", "INFO"}

\* title, description and recommendation are fixed per rule id, except for
\* the text interpolated from the match, which `detail` carries.
Finding(id, severity, file, line, detail, agentSource) ==
    [id |-> id, severity |-> severity, file |-> file, line |-> line,
     detail |-> detail, agentSource |-> agentSource]

---------------------------------------------------------------------------
(* Scoring agent: runScoringAgent *)

\* The counting loop: one pass over the list, three counters.
RECURSIVE CountLoop(_, _, _)
CountLoop(vs, i, c) ==
    IF i > Len(vs) THEN c
    ELSE CountLoop(vs, i + 1,
            IF vs[i].severity = "ERROR"
                THEN [c EXCEPT !.errorCount = @ + 1]
            ELSE IF vs[i].severity = "WARNING"
                THEN [c EXCEPT !.warningCount = @ + 1]
            ELSE [c EXCEPT !.infoCount = @ + 1])

PenaltySwapped(e, w, i) == e * ErrorPenalty + w * InfoPenalty + i * WarningPenalty

Penalty(e, w, i) == e * ErrorPenalty + w * WarningPenalty + i * InfoPenalty

FloorAbs(score) == IF score < ScoreFloor THEN ScoreFloor - score ELSE score

FloorScore(score) == Max(ScoreFloor, score)

DecisionScoreOnly(errorCount, score) ==
    IF score < GoThreshold THEN "NO-GO" ELSE "GO"

Decision(errorCount, score) ==
    IF errorCount > 0 \/ score < GoThreshold THEN "NO-GO" ELSE "GO"

runScoringAgent(vulnerabilities) ==
    LET c == CountLoop(vulnerabilities, 1,
                 [errorCount |-> 0, warningCount |-> 0, infoCount |-> 0])
        score == FloorScore(PerfectScore
                    - Penalty(c.errorCount, c.warningCount, c.infoCount))
    IN  [vulnerabilities |-> vulnerabilities,
         totalVulnerabilities |-> Len(vulnerabilities),
         errorCount |-> c.errorCount,
         warningCount |-> c.warningCount,
         infoCount |-> c.infoCount,
         finalScore |-> score,
         decision |-> Decision(c.errorCount, score)]

---------------------------------------------------------------------------
(* Source files (type WorkspaceFile) and the text abstraction *)

\* Lexical items a file's content is made of.
\*   nl        a line feed
\*   nl1000    a block of 1000 line feeds (blank lines)
\*   nl999     a block of 999 line feeds
\*   ls        a line separator U+2028: a line break to the TypeScript
\*             scanner, an ordinary character to split('\n') and to the
\*             editor's line model
\*   evalCall  a call expression eval(...)            (matches /eval\s*\(/ too)
\*   evalText  the text "eval(" inside a string literal or a comment
\*   dsih      a JSX attribute dangerouslySetInnerHTML={...}
\*   secret    an assignment like API_KEY = "sk-12345"
\*   debug     debug = true
\*   log, err  console.log(  and  console.error(
\*   pii       console.log(user)
\*   prompt    prompt: `... ${userInput} ...}`
\*   dbimport  import x from 'pg'
\*   deep      an expression nested so deeply that the recursive tree walk
\*             (or the parser) overflows the stack and throws
\*   pkg       the text of a JSON object with a "dependencies" object; the
\*             dep* tokens that follow are its entries
\*   depRequest, depLeftPad, depSafe  entries "request", "left-pad", "lodash"
\*   jsonNull    the JSON text null
\*   jsonScalar  a JSON text that is a number, a string, true, false or []
Tokens ==
    {"nl", "nl1000", "nl999", "ls", "evalCall", "evalText", "dsih", "secret", "debug", "log",
     "err", "pii", "prompt", "dbimport", "deep", "pkg", "depRequest",
     "depLeftPad", "depSafe", "jsonNull", "jsonScalar"}

Paths == {"a.ts", "b.tsx", "c.py", "d.md", "package.json", "my-package.json"}

\* /\.(ts|js|jsx|tsx)$/i
IsScriptPath(p) == p \in {"a.ts", "b.tsx"}

\* /\.(tsx|jsx)$/i
IsComponentPath(p) == p \in {"b.tsx"}

\* /\.(ts|js|jsx|tsx|py)$/i
IsCompliancePath(p) == p \in {"a.ts", "b.tsx", "c.py"}

\* /\.(ts|js|py)$/i
IsAiRiskPath(p) == p \in {"a.ts", "c.py"}

\* fsPath.endsWith('package.json'): true of every path with that suffix,
\* whatever precedes it in the file name.
IsManifestPath(p) == p \in {"package.json", "my-package.json"}

\* ts.createSourceFile picks the language variant from the file name: JSX is
\* parsed in .tsx/.jsx/.js files, not in .ts files.
ParsesJsx(p) == p \in {"b.tsx"}

File(path, content) == [fsPath |-> path, content |-> content]

\* Line feeds a token contributes to content.split('\n').
Newlines(tok) ==
    IF tok = "nl" THEN 1
    ELSE IF tok = "nl1000" THEN 1000
    ELSE IF tok = "nl999" THEN 999
    ELSE 0

RECURSIVE NewlinesBefore(_, _)
NewlinesBefore(content, index) ==
    IF index = 0 THEN 0
    ELSE NewlinesBefore(content, index - 1) + Newlines(content[index])

\* text.substring(from, to), offsets 0-based
Substring(text, from, to) == SubSeq(text, from + 1, to)

\* text.split('\n'): the pieces between the line feeds, one more piece than
\* there are line feeds.
RECURSIVE Split(_)
Split(text) ==
    IF text = <<>> THEN << <<>> >>
    ELSE LET rest == Split(Tail(text))
         IN  IF Newlines(Head(text)) = 0
             THEN << <<Head(text)>> \o rest[1] >> \o Tail(rest)
             ELSE [i \in 1..Newlines(Head(text)) |-> <<>>] \o rest

LineIndexOfOffset(content, index) == Len(Split(Substring(content, 0, index))) - 1

\* content.substring(0, index).split('\n').length, index a 0-based offset
LineOfOffset(content, index) == Len(Split(Substring(content, 0, index)))

\* content.split('\n').length
LineCount(content) == Len(Split(content))

\* Line starts a token contributes to ts.computeLineStarts, which breaks a
\* line at a line feed and at U+2028 / U+2029 alike.
LineBreaks(tok) == IF tok = "ls" THEN 1 ELSE Newlines(tok)

RECURSIVE LineBreaksBefore(_, _)
LineBreaksBefore(content, index) ==
    IF index = 0 THEN 0
    ELSE LineBreaksBefore(content, index - 1) + LineBreaks(content[index])

\* sourceFile.getLineAndCharacterOfPosition(pos).line: the 0-based index of
\* the line start at or before the position.
LineOfPosition(content, pos) == LineBreaksBefore(content, pos)

\* document.lineCount
DocumentLineCount(content) == NewlinesBefore(content, Len(content)) + 1

---------------------------------------------------------------------------
(* Pattern matching: RegExp.prototype.exec on a global regex *)

\* What each pattern matches.
secretRegex == {"secret"}
debugRegex == {"debug"}
piiRegex == {"pii"}
basicLoggingRule == {"log", "err", "pii"}
promptInjectionRegex == {"prompt"}
serverDbImports == {"dbimport"}

\* The text of a match (match[0], or match[1] for serverDbImports).
MatchText(tok) ==
    CASE tok = "log" -> "console.log("
      [] tok = "pii" -> "console.log("
      [] tok = "err" -> "console.error("
      [] tok = "dbimport" -> "pg"
      [] OTHER -> ""

\* regex.exec(content) with regex.lastIndex = lastIndex: the first match at or
\* after lastIndex; index = -1 stands for null, which resets lastIndex to 0.
RegexExec(content, regex, lastIndex) ==
    LET hits == {i \in (lastIndex + 1)..Len(content) : content[i] \in regex}
    IN  IF hits = {} THEN [index |-> -1, lastIndex |-> 0]
        ELSE LET i == CHOOSE h \in hits : \A g \in hits : h <= g
             IN  [index |-> i - 1, lastIndex |-> i]

\* while ((match = regex.exec(content)) !== null) { ... }: the offsets of
\* the matches, in order, starting from lastIndex.
RECURSIVE ExecWhile(_, _, _)
ExecWhile(content, regex, lastIndex) ==
    LET m == RegexExec(content, regex, lastIndex)
    IN  IF m.index = -1 THEN <<>>
        ELSE <<m.index>> \o ExecWhile(content, regex, m.lastIndex)

\* regex.lastIndex = 0; while (exec) push(finding at the match's line)
MatchFindings(file, regex, id, severity, agentSource) ==
    LET offs == ExecWhile(file.content, regex, 0)
    IN  [k \in 1..Len(offs) |->
            Finding(id, severity, file.fsPath,
                    LineOfOffset(file.content, offs[k]),
                    MatchText(file.content[offs[k] + 1]), agentSource)]

---------------------------------------------------------------------------
(* Structural analysis: ts.createSourceFile and the recursive visit *)

\* The nodes visit() reaches before it throws: all of them when nothing
\* throws, those before the first "deep" token otherwise.
VisitedPrefix(content) ==
    LET deeps == {i \in 1..Len(content) : content[i] = "deep"}
    IN  IF deeps = {} THEN Len(content)
        ELSE (CHOOSE d \in deeps : \A e \in deeps : d <= e) - 1

AstThrows(file) ==
    IsScriptPath(file.fsPath) /\ \E i \in 1..Len(file.content) : file.content[i] = "deep"

\* The findings pushed by visit(); what was pushed before a throw stays in
\* the findings array, the catch block removes nothing.
RECURSIVE VisitFrom(_, _, _)
VisitFrom(file, i, last) ==
    IF i > last THEN <<>>
    ELSE (IF file.content[i] = "evalCall"
            THEN <<Finding("eval-usage", "ERROR", file.fsPath,
                           LineOfPosition(file.content, i - 1) + 1, "", "SecurityAgent")>>
          ELSE IF file.content[i] = "dsih" /\ ParsesJsx(file.fsPath)
            THEN <<Finding("dangerously-set-inner-html", "ERROR", file.fsPath,
                           LineOfPosition(file.content, i - 1) + 1, "", "SecurityAgent")>>
          ELSE <<>>) \o VisitFrom(file, i + 1, last)

AstFindings(file) ==
    IF IsScriptPath(file.fsPath)
    THEN VisitFrom(file, 1, VisitedPrefix(file.content))
    ELSE <<>>

---------------------------------------------------------------------------
(* The five category agents *)

SecurityFile(file) ==
    AstFindings(file)
    \o MatchFindings(file, secretRegex, "env-isolation", "ERROR", "SecurityAgent")
    \o MatchFindings(file, debugRegex, "debug-exposure", "WARNING", "SecurityAgent")

blacklistedDeps == {"request", "left-pad", "crypto-js"}

DepName(tok) ==
    CASE tok = "depRequest" -> "request"
      [] tok = "depLeftPad" -> "left-pad"
      [] tok = "depSafe" -> "lodash"
      [] OTHER -> ""

\* The content without its white space.
JsonBody(content) ==
    FilterIdx(content, {i \in 1..Len(content) : Newlines(content[i]) = 0}, 1)

\* Whether JSON.parse(content) returns a value: the content is one JSON text.
JsonValid(content) ==
    LET body == JsonBody(content)
    IN  /\ Len(body) >= 1
        /\ \/ body \in {<<"jsonNull">>, <<"jsonScalar">>}
           \/ /\ body[1] = "pkg"
              /\ \A i \in 2..Len(body) : DepName(body[i]) # ""

JsonParsesLenient(content) == JsonValid(content)

\* Whether the try block runs to its end: JSON.parse(content) returns and
\* the reads pkg.dependencies and pkg.devDependencies do not throw, which
\* they do on null and on nothing else.
JsonParses(content) ==
    JsonValid(content) /\ JsonBody(content) # <<"jsonNull">>

\* Object.keys(deps): each name once, in the order of first insertion.
DepKeys(content) ==
    LET body == JsonBody(content)
    IN  FilterIdx(body, {i \in 2..Len(body) :
                            \A j \in 2..(i - 1) : body[j] # body[i]}, 1)

DependencyFile(file) ==
    IF ~IsManifestPath(file.fsPath) THEN <<>>
    ELSE IF JsonParses(file.content)
    THEN LET keys == DepKeys(file.content)
             bad == FilterIdx(keys, {i \in 1..Len(keys) :
                                        DepName(keys[i]) \in blacklistedDeps}, 1)
         IN  [k \in 1..Len(bad) |->
                Finding("blacklisted-dependency", "WARNING", file.fsPath, 1,
                        DepName(bad[k]), "DependencyAgent")]
    ELSE <<Finding("malformed-package-json", "INFO", file.fsPath, 1, "",
                   "DependencyAgent")>>

ComplianceWithSecrets(file) ==
    IF IsCompliancePath(file.fsPath)
    THEN MatchFindings(file, secretRegex, "env-isolation", "ERROR", "ComplianceAgent")
         \o MatchFindings(file, piiRegex, "pii-leakage", "ERROR", "ComplianceAgent")
    ELSE <<>>

ComplianceFile(file) ==
    IF ~IsCompliancePath(file.fsPath) THEN <<>>
    ELSE MatchFindings(file, piiRegex, "pii-leakage", "ERROR", "ComplianceAgent")
         \o MatchFindings(file, basicLoggingRule, "observability-failure", "INFO",
                          "ComplianceAgent")

AiRiskFile(file) ==
    IF ~IsAiRiskPath(file.fsPath) THEN <<>>
    ELSE MatchFindings(file, promptInjectionRegex, "ai-prompt-injection",
                       "WARNING", "AiRiskAgent")

GodObjectLines == 1000

ArchitectureFile(file) ==
    (IF LineCount(file.content) > GodObjectLines
        THEN <<Finding("architecture-fragility", "WARNING", file.fsPath, 1, "",
                       "ArchitectureAgent")>>
        ELSE <<>>)
    \o (IF IsComponentPath(file.fsPath)
        THEN MatchFindings(file, serverDbImports, "architecture-fragility-db",
                           "ERROR", "ArchitectureAgent")
        ELSE <<>>)

\* The body of an agent's loop over the files, for one file.
AgentFile(a, file) ==
    CASE a = "SecurityAgent" -> SecurityFile(file)
      [] a = "DependencyAgent" -> DependencyFile(file)
      [] a = "ComplianceAgent" -> ComplianceFile(file)
      [] a = "AiRiskAgent" -> AiRiskFile(file)
      [] a = "ArchitectureAgent" -> ArchitectureFile(file)

FirstFileOnly(a, fs, i) == IF fs = <<>> THEN <<>> ELSE AgentFile(a, fs[1])

\* for (const file of files) { ... findings.push(...) ... }
RECURSIVE ForEachFile(_, _, _)
ForEachFile(a, fs, i) ==
    IF i > Len(fs) THEN <<>>
    ELSE AgentFile(a, fs[i]) \o ForEachFile(a, fs, i + 1)

SharedFindings(pushedByOthers) == pushedByOthers

\* const findings: Vulnerability[] = [];  each call starts from its own
\* empty array, whatever the other agents have pushed to theirs.
LocalFindings(pushedByOthers) == <<>>

AgentFindings(a, fs, pushedByOthers) ==
    LocalFindings(pushedByOthers) \o ForEachFile(a, fs, 1)

\* The statements of agent a that throw on this file: createSourceFile and
\* visit on a construct they overflow on, JSON.parse and the property reads
\* on an unreadable manifest.  The regex loops and split() throw on nothing.
Raises(a, file) ==
    CASE a = "SecurityAgent" -> AstThrows(file)
      [] a = "DependencyAgent" ->
            IsManifestPath(file.fsPath) /\ ~JsonParses(file.content)
      [] OTHER -> FALSE

NoTry(a) == FALSE

\* The agents whose throwing statements stand inside try { } catch { }.
InsideTry(a) == a \in {"SecurityAgent", "DependencyAgent"}

\* The promise of agent a rejects: an exception leaves the async function.
Rejects(a, fs) == \E n \in 1..Len(fs) : Raises(a, fs[n]) /\ ~InsideTry(a)

runSecurityAgent(fs) == AgentFindings("SecurityAgent", fs, <<>>)

runDependencyAgent(fs) == AgentFindings("DependencyAgent", fs, <<>>)

runComplianceAgent(fs) == AgentFindings("ComplianceAgent", fs, <<>>)

runAiRiskAgent(fs) == AgentFindings("AiRiskAgent", fs, <<>>)

runArchitectureAgent(fs) == AgentFindings("ArchitectureAgent", fs, <<>>)

---------------------------------------------------------------------------
(* Orchestrator: runAudit *)

\* The order of the array handed to Promise.all and of the push(...) calls.
AgentOrder ==
    <<"SecurityAgent", "DependencyAgent", "ComplianceAgent", "AiRiskAgent",
      "ArchitectureAgent">>

Agents == Range(AgentOrder)

\* allFindings.push(...securityFindings, ...dependencyFindings, ...)
RECURSIVE Aggregate(_, _)
Aggregate(res, k) ==
    IF k > Len(AgentOrder) THEN <<>>
    ELSE res[AgentOrder[k]] \o Aggregate(res, k + 1)

SameKeyAndText(t, finding) ==
    /\ t.id = finding.id
    /\ t.file = finding.file
    /\ t.line = finding.line
    /\ t.detail = finding.detail

\* t.id === finding.id && t.file === finding.file && t.line === finding.line
SameKey(t, finding) ==
    /\ t.id = finding.id
    /\ t.file = finding.file
    /\ t.line = finding.line

KeepAllFindings(allFindings) == allFindings

FindLastIndex(self, finding) ==
    CHOOSE j \in 1..Len(self) :
        /\ SameKey(self[j], finding)
        /\ \A k \in (j + 1)..Len(self) : ~SameKey(self[k], finding)

\* self.findIndex(t => SameKey(t, finding)), 1-based
FindIndex(self, finding) ==
    CHOOSE j \in 1..Len(self) :
        /\ SameKey(self[j], finding)
        /\ \A k \in 1..(j - 1) : ~SameKey(self[k], finding)

\* allFindings.filter((finding, index, self) => index === self.findIndex(...))
UniqueFindings(allFindings) ==
    FilterIdx(allFindings,
              {i \in 1..Len(allFindings) : i = FindIndex(allFindings, allFindings[i])},
              1)

\* runAudit as one function of its argument: what the caller gets when the
\* agents run one after another in the order of the source.
runAudit(fs) ==
    LET securityFindings == runSecurityAgent(fs)
        dependencyFindings == runDependencyAgent(fs)
        complianceFindings == runComplianceAgent(fs)
        aiRiskFindings == runAiRiskAgent(fs)
        architectureFindings == runArchitectureAgent(fs)
    IN  runScoringAgent(UniqueFindings(
            securityFindings \o dependencyFindings \o complianceFindings
            \o aiRiskFindings \o architectureFindings))

---------------------------------------------------------------------------
(* SpecScore: a caller scores a finding list that grows by one finding at *)
(* a time.                                                                 *)

\* One finding of each severity; the score reads nothing but the severity.
ScoreFindings ==
    {Finding("env-isolation", "ERROR", "a.ts", 1, "", "SecurityAgent"),
     Finding("debug-exposure", "WARNING", "a.ts", 1, "", "SecurityAgent"),
     Finding("observability-failure", "INFO", "a.ts", 1, "", "ComplianceAgent")}

AuditIdle ==
    /\ files = <<>>
    /\ done = {}
    /\ firstDone = ""
    /\ results = <<>>
    /\ report = <<>>

\* No document is open and no scan runs.
ScanIdle ==
    /\ docs = <<>>
    /\ ig = {}
    /\ vcLastIndex = <<>>
    /\ vcDiag = <<>>
    /\ vcRescanned = FALSE
    /\ roCalls = <<>>
    /\ roDiag = <<>>
    /\ gitignore = {}
    /\ cmd = <<>>
    /\ opened = {}

\* No finding list is being scored.
ScoreIdle ==
    /\ vulns = <<>>
    /\ scored = runScoringAgent(<<>>)

InitScore ==
    /\ vulns = <<>>
    /\ scored = runScoringAgent(<<>>)
    /\ AuditIdle
    /\ ScanIdle

ScoreOneMore(f) ==
    /\ Len(vulns) < MaxFindings
    /\ vulns' = Append(vulns, f)
    /\ scored' = runScoringAgent(vulns')
    /\ UNCHANGED <<auditVars, scanVars>>

NextScore == \E f \in ScoreFindings : ScoreOneMore(f)

SpecScore == InitScore /\ [][NextScore]_vars

---------------------------------------------------------------------------
(* Spec: one call of runAudit.  Each agent is an async function without an *)
(* await, so its body runs as one step; the steps of the five agents are   *)
(* taken in any order, which covers every order in which their promises    *)
(* can settle.  Promise.all resolves once all five have settled.           *)

\* The tokens tried in a file of each kind.
AuditAlphabet(path) ==
    IF IsManifestPath(path)
    THEN {"pkg", "depRequest", "depLeftPad", "jsonNull", "jsonScalar"}
    ELSE {"nl", "evalCall", "secret", "log", "err", "deep"}

AuditPaths == {"a.ts", "package.json"}

AuditFiles(budget) ==
    UNION {{File(p, c) : c \in UNION {[1..n -> AuditAlphabet(p)] : n \in 0..budget}}
              : p \in AuditPaths}

\* The file lists of at most n files and at most budget tokens in all.
RECURSIVE FileLists(_, _)
FileLists(n, budget) ==
    IF n = 0 THEN {<<>>}
    ELSE {<<>>} \cup
         UNION {{<<f>> \o rest : rest \in FileLists(n - 1, budget - Len(f.content))}
                   : f \in AuditFiles(budget)}

\* A workspace in which every one of the five agents reports something.
FiveAgentFiles ==
    <<File("a.ts", <<"secret", "nl", "log", "err", "prompt">>),
      File("b.tsx", <<"dbimport", "dsih">>),
      File("package.json", <<"pkg", "depRequest", "depLeftPad">>)>>

AuditInputs == FileLists(MaxFiles, MaxTokens) \cup {FiveAgentFiles}

Init ==
    /\ files \in AuditInputs
    /\ done = {}
    /\ firstDone = ""
    /\ results = [a \in Agents |-> <<>>]
    /\ report = <<>>
    /\ ScoreIdle
    /\ ScanIdle

\* What the agents that have run so far have pushed, in the order of the
\* source.
PushedSoFar ==
    Aggregate([a \in Agents |-> IF a \in done THEN results[a] ELSE <<>>], 1)

\* The body of agent a runs and its promise resolves to its findings.
AgentRuns(a) ==
    /\ a \notin done
    /\ results' = [results EXCEPT ![a] = AgentFindings(a, files, PushedSoFar)]
    /\ done' = done \cup {a}
    /\ firstDone' = IF done = {} THEN a ELSE firstDone
    /\ UNCHANGED <<files, report, scoreVars, scanVars>>

SecurityAgentRuns == AgentRuns("SecurityAgent")

DependencyAgentRuns == AgentRuns("DependencyAgent")

ComplianceAgentRuns == AgentRuns("ComplianceAgent")

AiRiskAgentRuns == AgentRuns("AiRiskAgent")

ArchitectureAgentRuns == AgentRuns("ArchitectureAgent")

AnyAgentSettled(settled) == settled # {}

\* await Promise.all([...]) continues once every promise has resolved.
AllAgentsSettled(settled) == settled = Agents

\* The continuation of runAudit: aggregate, deduplicate, score, return.  It
\* runs only if no promise rejected; a rejection makes the await throw and
\* runAudit reject without a report.
AuditReturns ==
    /\ report = <<>>
    /\ AllAgentsSettled(done)
    /\ \A a \in Agents : ~Rejects(a, files)
    /\ report' = <<runScoringAgent(UniqueFindings(Aggregate(results, 1)))>>
    /\ UNCHANGED <<files, done, firstDone, results, scoreVars, scanVars>>

Next ==
    \/ SecurityAgentRuns
    \/ DependencyAgentRuns
    \/ ComplianceAgentRuns
    \/ AiRiskAgentRuns
    \/ ArchitectureAgentRuns
    \/ AuditReturns

Spec == Init /\ [][Next]_vars

\* The lexical items the textual and manifest rules react to.
FileAlphabet ==
    {"nl", "secret", "debug", "pii", "err", "prompt", "dbimport", "pkg",
     "depRequest"}

\* One call of runAudit on a single file, as the extension makes it, the
\* file of any kind.
OneFileInputs ==
    {<<File(p, c)>> : p \in Paths,
                     c \in UNION {[1..n -> FileAlphabet] : n \in 0..MaxFileTokens}}

InitFile ==
    /\ files \in OneFileInputs
    /\ done = {}
    /\ firstDone = ""
    /\ results = [a \in Agents |-> <<>>]
    /\ report = <<>>
    /\ ScoreIdle
    /\ ScanIdle

SpecFile == InitFile /\ [][Next]_vars

\* One call of runAudit on a single file of about a thousand lines.
LineAlphabet == {"nl", "nl999", "nl1000", "log"}

LineInputs ==
    {<<File(p, c)>> : p \in {"a.ts", "c.py"},
                     c \in UNION {[1..n -> LineAlphabet] : n \in 0..MaxLineTokens}}

InitLines ==
    /\ files \in LineInputs
    /\ done = {}
    /\ firstDone = ""
    /\ results = [a \in Agents |-> <<>>]
    /\ report = <<>>
    /\ ScoreIdle
    /\ ScanIdle

SpecLines == InitLines /\ [][Next]_vars

\* The same call under the scheduling of the event loop: a body that can run
\* and a continuation whose promise has resolved do run.
SpecLive == Init /\ [][Next]_vars /\ WF_vars(Next)

---------------------------------------------------------------------------
(* Editor layer: documents and diagnostics *)

\* A vscode.TextDocument: its uri (scheme and path) and its text.
Document(scheme, path, content) ==
    [scheme |-> scheme, fsPath |-> path, content |-> content]

\* A vscode.Diagnostic: its code, severity, the 0-based line its range
\* starts on, and its source.
Diagnostic(code, severity, line, source) ==
    [code |-> code, severity |-> severity, line |-> line, source |-> source]

\* document.positionAt(offset).line: the line feeds before the offset.
PositionLine(content, offset) == NewlinesBefore(content, offset)

\* ig.ignores(relativePath), for a document inside the workspace folder
Ignores(path) == path \in ig

---------------------------------------------------------------------------
(* vibecheck: the rule table and the synchronous scanDocument *)

VcRule(id, regex, vscodeSeverity, displaySeverity) ==
    [id |-> id, regex |-> regex, vscodeSeverity |-> vscodeSeverity,
     displaySeverity |-> displaySeverity]

\* regex: the tokens of the text abstraction the rule's pattern matches.
vulnerabilityRules ==
    <<VcRule("pii-logging", {"pii"}, "Warning", "Error"),
      VcRule("pii-storage", {}, "Warning", "Error"),
      VcRule("ai-loop", {}, "Warning", "Error"),
      VcRule("missing-error-handling", {}, "Warning", "Warning"),
      VcRule("http-url", {}, "Warning", "Error"),
      VcRule("open-cors", {}, "Warning", "Error"),
      VcRule("sql-injection", {}, "Warning", "Error"),
      VcRule("sql-injection-template", {}, "Warning", "Error"),
      VcRule("observability-failure", {"err"}, "Information", "Info"),
      VcRule("env-isolation", {"secret"}, "Warning", "Error"),
      VcRule("dev-config-prod", {}, "Warning", "Warning"),
      VcRule("debug-exposure", {"debug"}, "Warning", "Error"),
      VcRule("ai-data-leakage", {}, "Warning", "Error"),
      VcRule("eval-usage", {"evalCall", "evalText"}, "Warning", "Error"),
      VcRule("dangerously-set-inner-html", {"dsih"}, "Warning", "Warning"),
      VcRule("insecure-random", {}, "Information", "Info")>>

\* /\.(ts|js|jsx|tsx|json|html|css|py|java|c|cpp|go|rb|php)$/i, or a .env file
IsCodeOrEnvPath(p) ==
    p \in {"a.ts", "b.tsx", "c.py", "package.json", "my-package.json"}

\* The diagnostics pushed by visit(), up to the node at which it throws.
RECURSIVE VcVisitFrom(_, _, _)
VcVisitFrom(doc, i, last) ==
    IF i > last THEN <<>>
    ELSE (IF doc.content[i] = "evalCall"
            THEN <<Diagnostic("eval-usage", "Warning",
                              PositionLine(doc.content, i - 1), "ReadyOrNot")>>
          ELSE IF doc.content[i] = "dsih" /\ ParsesJsx(doc.fsPath)
            THEN <<Diagnostic("dangerously-set-inner-html", "Warning",
                              PositionLine(doc.content, i - 1), "ReadyOrNot")>>
          ELSE <<>>) \o VcVisitFrom(doc, i + 1, last)

\* astReportedIds: filled only after visit() has returned.
AstReportedIds(doc) ==
    IF IsScriptPath(doc.fsPath) /\ ~AstThrows(doc)
    THEN {"eval-usage", "dangerously-set-inner-html"}
    ELSE {}

RuleScanOnce(text, regex, lastIndex) ==
    LET m == RegexExec(text, regex, lastIndex)
    IN  [offsets |-> IF m.index = -1 THEN <<>> ELSE <<m.index>>,
         lastIndex |-> m.lastIndex]

\* rule.regex.lastIndex = 0; while ((match = rule.regex.exec(text)) !== null)
\* The loop ends on the null that leaves lastIndex at 0.
RuleScan(text, regex, lastIndex) ==
    [offsets |-> ExecWhile(text, regex, 0), lastIndex |-> 0]

\* for (const rule of vulnerabilityRules): the diagnostics of rules k.. and
\* the lastIndex of every rule's RegExp afterwards.
RECURSIVE RuleLoop(_, _, _, _)
RuleLoop(doc, k, skip, li) ==
    IF k > Len(vulnerabilityRules) THEN [diags |-> <<>>, lastIndex |-> li]
    ELSE IF vulnerabilityRules[k].id \in skip THEN RuleLoop(doc, k + 1, skip, li)
    ELSE LET rule == vulnerabilityRules[k]
             r == RuleScan(doc.content, rule.regex, li[k])
             rest == RuleLoop(doc, k + 1, skip, [li EXCEPT ![k] = r.lastIndex])
         IN  [diags |-> [n \in 1..Len(r.offsets) |->
                           Diagnostic(rule.id, rule.vscodeSeverity,
                                      PositionLine(doc.content, r.offsets[n]),
                                      "ReadyOrNot")] \o rest.diags,
              lastIndex |-> rest.lastIndex]

\* The diagnostics array built by one scan that gets as far as the rules.
VcDiagnostics(doc, li) ==
    LET god == IF DocumentLineCount(doc.content) > GodObjectLines
               THEN <<Diagnostic("architecture-fragility", "Warning", 0, "ReadyOrNot")>>
               ELSE <<>>
        db == IF IsComponentPath(doc.fsPath)
                 /\ RegexExec(doc.content, serverDbImports, 0).index # -1
              THEN <<Diagnostic("architecture-fragility-db", "Warning", 0, "ReadyOrNot")>>
              ELSE <<>>
        ast == IF IsScriptPath(doc.fsPath)
               THEN VcVisitFrom(doc, 1, VisitedPrefix(doc.content))
               ELSE <<>>
        rules == RuleLoop(doc, 1, AstReportedIds(doc), li)
    IN  [diags |-> god \o db \o ast \o rules.diags, lastIndex |-> rules.lastIndex]

\* vibecheck's scanDocument(document), one synchronous call.
VcScanDocument(d) ==
    /\ vcRescanned' = (vcRescanned \/ vcDiag[d] # <<>>)
    /\ IF docs[d].scheme # "file"
       THEN UNCHANGED <<vcDiag, vcLastIndex>>
       ELSE IF Ignores(docs[d].fsPath)
       THEN /\ vcDiag' = [vcDiag EXCEPT ![d] = << <<>> >>]
            /\ UNCHANGED vcLastIndex
       ELSE IF ~IsCodeOrEnvPath(docs[d].fsPath)
       THEN UNCHANGED <<vcDiag, vcLastIndex>>
       ELSE LET r == VcDiagnostics(docs[d], vcLastIndex)
            IN  /\ vcDiag' = [vcDiag EXCEPT ![d] = <<r.diags>>]
                /\ vcLastIndex' = r.lastIndex
    /\ UNCHANGED <<docs, ig, roCalls, roDiag, ignoreVars, scoreVars, auditVars>>

---------------------------------------------------------------------------
(* ReadyOrNot: the asynchronous scanDocument *)

VsSeverityDirect(severity) ==
    IF severity = "ERROR" THEN "Error"
    ELSE IF severity = "WARNING" THEN "Warning"
    ELSE "Information"

\* ERROR and WARNING map to Warning, INFO to Information.
VsSeverity(severity) ==
    IF severity = "ERROR" THEN "Warning"
    ELSE IF severity = "WARNING" THEN "Warning"
    ELSE "Information"

\* diagnostic.source = `ReadyOrNot [${finding.agentSource}]`
RoSource(agentSource) ==
    CASE agentSource = "SecurityAgent" -> "ReadyOrNot [SecurityAgent]"
      [] agentSource = "DependencyAgent" -> "ReadyOrNot [DependencyAgent]"
      [] agentSource = "ComplianceAgent" -> "ReadyOrNot [ComplianceAgent]"
      [] agentSource = "AiRiskAgent" -> "ReadyOrNot [AiRiskAgent]"
      [] agentSource = "ArchitectureAgent" -> "ReadyOrNot [ArchitectureAgent]"

\* const lineIndex = Math.max(0, finding.line - 1)
LineIndex(finding) == Max(0, finding.line - 1)

SkipsNothing(finding, doc) == FALSE

\* if (lineIndex >= document.lineCount) continue;
SkipsFinding(finding, doc) == LineIndex(finding) >= DocumentLineCount(doc.content)

\* The loop over auditReport.vulnerabilities that builds the diagnostics,
\* against the document as it is when the loop runs.
RoDiagnostics(vulnerabilities, doc) ==
    LET kept == {i \in 1..Len(vulnerabilities) : ~SkipsFinding(vulnerabilities[i], doc)}
        shown == FilterIdx(vulnerabilities, kept, 1)
    IN  [n \in 1..Len(shown) |->
            Diagnostic(shown[n].id, VsSeverity(shown[n].severity),
                       LineIndex(shown[n]), RoSource(shown[n].agentSource))]

\* The rows the command's loop pushes to allResults for one file: one for
\* each finding the loop did not skip, with the finding's own line.
ResultSeverity(severity) ==
    IF severity = "ERROR" THEN "Error"
    ELSE IF severity = "WARNING" THEN "Warning"
    ELSE "Info"

ResultRow(file, line, code, severity) ==
    [file |-> file, line |-> line, code |-> code, severity |-> severity]

RoResults(vulnerabilities, doc) ==
    LET kept == {i \in 1..Len(vulnerabilities) : ~SkipsFinding(vulnerabilities[i], doc)}
        shown == FilterIdx(vulnerabilities, kept, 1)
    IN  [n \in 1..Len(shown) |->
            ResultRow(doc.fsPath, shown[n].line, shown[n].id,
                      ResultSeverity(shown[n].severity))]

\* One call of scanDocument: where it stands, the document it was given, the
\* text it captured, the report of its audit, its place among the calls in
\* the order in which they were made, and how many continuations were queued
\* when its own was.
IdleCall ==
    [st |-> "idle", doc |-> 0, content |-> <<>>, report |-> <<>>, ticket |-> 0,
     queued |-> 0]

\* The calls made so far.
CallsMade == Cardinality({c \in 1..MaxCalls : roCalls[c].st # "idle"})

\* The calls suspended at their await.
CallsInFlight == Cardinality({c \in 1..MaxCalls : roCalls[c].st = "awaiting"})

RoScanStartsCancelling(c, d) ==
    /\ roCalls[c].st = "idle"
    /\ docs[d].scheme = "file"
    /\ roCalls' = [k \in 1..MaxCalls |->
          IF k = c
          THEN [st |-> "awaiting", doc |-> d, content |-> docs[d].content,
                report |-> <<runAudit(<<File(docs[d].fsPath, docs[d].content)>>)>>,
                ticket |-> CallsMade + 1, queued |-> CallsInFlight]
          ELSE IF roCalls[k].st = "awaiting" /\ roCalls[k].doc = d
          THEN [roCalls[k] EXCEPT !.st = "cancelled"]
          ELSE roCalls[k]]
    /\ UNCHANGED <<docs, ig, vcLastIndex, vcDiag, vcRescanned, roDiag, ignoreVars,
                   scoreVars, auditVars>>

\* scanDocument(document) up to its await: the ignore check, the capture of
\* the text, and runAudit, whose agents run before the call first suspends.
RoScanStarts(c, d) ==
    /\ roCalls[c].st = "idle"
    /\ docs[d].scheme = "file"
    /\ IF Ignores(docs[d].fsPath)
       THEN /\ roDiag' = [roDiag EXCEPT ![d] = << <<>> >>]
            /\ UNCHANGED roCalls
       ELSE /\ roCalls' = [roCalls EXCEPT ![c] =
                   [st |-> "awaiting", doc |-> d, content |-> docs[d].content,
                    report |-> <<runAudit(<<File(docs[d].fsPath, docs[d].content)>>)>>,
                    ticket |-> CallsMade + 1, queued |-> CallsInFlight]]
            /\ UNCHANGED roDiag
    /\ UNCHANGED <<docs, ig, vcLastIndex, vcDiag, vcRescanned, ignoreVars,
                   scoreVars, auditVars>>

\* The continuation after the await: publish the diagnostics.
RoScanFinishes(c) ==
    /\ roCalls[c].st = "awaiting"
    /\ roDiag' = [roDiag EXCEPT ![roCalls[c].doc] =
            <<RoDiagnostics(roCalls[c].report[1].vulnerabilities,
                            docs[roCalls[c].doc])>>]
    /\ roCalls' = [roCalls EXCEPT ![c].st = "done"]
    /\ UNCHANGED <<docs, ig, vcLastIndex, vcDiag, vcRescanned, ignoreVars,
                   scoreVars, auditVars>>

---------------------------------------------------------------------------
(* SpecScan: two open documents are scanned, again and again, by both      *)
(* extensions.  The continuations of ReadyOrNot's calls are taken in any   *)
(* order, which includes the order of the microtask queue.                 *)

ScanAlphabet == {"nl", "ls", "evalCall", "secret", "deep"}

DocIds == 1..2

DocPath(d) == IF d = 1 THEN "a.ts" ELSE "b.tsx"

ScanContents(budget) == UNION {[1..n -> ScanAlphabet] : n \in 0..budget}

\* The text of the extension test's file: eval("console.log(1)"), a secret
\* assignment and a dangerouslySetInnerHTML attribute on three lines.
VulnerableCode == <<"evalCall", "log", "nl", "secret", "nl", "dsih">>

\* A secret assignment, then a U+2028 and an eval call on what TypeScript
\* takes for the second line of a one-line document.
SeparatorCode == <<"secret", "ls", "evalCall">>

ScanInputs ==
    UNION {{<<Document("file", DocPath(1), c1), Document("file", DocPath(2), c2)>> :
                c2 \in ScanContents(MaxDocTokens - Len(c1))} :
              c1 \in ScanContents(MaxDocTokens)}
    \cup {<<Document("file", DocPath(1), VulnerableCode),
            Document("file", DocPath(2), VulnerableCode)>>}
    \cup {<<Document("file", DocPath(1), SeparatorCode),
            Document("file", DocPath(2), <<>>)>>}

InitScan ==
    /\ docs \in ScanInputs
    /\ ig = {}
    /\ vcLastIndex = [k \in 1..Len(vulnerabilityRules) |-> 0]
    /\ vcDiag = [d \in DocIds |-> <<>>]
    /\ vcRescanned = FALSE
    /\ roCalls = [c \in 1..MaxCalls |-> IdleCall]
    /\ roDiag = [d \in DocIds |-> <<>>]
    /\ gitignore = {}
    /\ cmd = <<>>
    /\ opened = {}
    /\ ScoreIdle
    /\ AuditIdle

NextScan ==
    \/ \E d \in DocIds : VcScanDocument(d)
    \/ \E c \in 1..MaxCalls, d \in DocIds : RoScanStarts(c, d)
    \/ \E c \in 1..MaxCalls : RoScanFinishes(c)

SpecScan == InitScan /\ [][NextScan]_vars

---------------------------------------------------------------------------
(* SpecEdit: documents are edited while ReadyOrNot's scanDocument calls are *)
(* started by open and save events.  Each call suspends once, at await      *)
(* runAudit(...); every call reaches that await through the same chain of   *)
(* already settled promises, so the continuations are queued as microtasks  *)
(* in the order in which the calls were made, and the job queue is always   *)
(* drained.                                                                 *)

EditAlphabet == {"nl", "evalCall"}

EditContents(budget) == UNION {[1..n -> EditAlphabet] : n \in 0..budget}

EditInputs ==
    UNION {{<<Document("file", DocPath(1), c1), Document("file", DocPath(2), c2)>> :
                c2 \in EditContents(MaxEditTokens - Len(c1))} :
              c1 \in EditContents(MaxEditTokens)}

InitEdit ==
    /\ docs \in EditInputs
    /\ ig = {}
    /\ vcLastIndex = [k \in 1..Len(vulnerabilityRules) |-> 0]
    /\ vcDiag = [d \in DocIds |-> <<>>]
    /\ vcRescanned = FALSE
    /\ roCalls = [c \in 1..MaxCalls |-> IdleCall]
    /\ roDiag = [d \in DocIds |-> <<>>]
    /\ gitignore = {}
    /\ cmd = <<>>
    /\ opened = {}
    /\ ScoreIdle
    /\ AuditIdle

\* The user edits document d: its text becomes `content`.
DocumentChanges(d, content) ==
    /\ content # docs[d].content
    /\ docs' = [docs EXCEPT ![d].content = content]
    /\ docs' \in EditInputs
    /\ UNCHANGED <<ig, vcLastIndex, vcDiag, vcRescanned, roCalls, roDiag,
                   ignoreVars, scoreVars, auditVars>>

RunsWhenever(c) == TRUE

\* The continuation of call c is at the head of the microtask queue: no call
\* made before it is still suspended.
RunsNext(c) ==
    \A c2 \in 1..MaxCalls :
        roCalls[c2].st = "awaiting" => roCalls[c2].ticket >= roCalls[c].ticket

\* The event loop runs the next continuation.
RoScanResumes(c) == RunsNext(c) /\ RoScanFinishes(c)

NextEdit ==
    \/ \E d \in DocIds, content \in EditContents(MaxEditTokens) :
          DocumentChanges(d, content)
    \/ \E c \in 1..MaxCalls, d \in DocIds : RoScanStarts(c, d)
    \/ \E c \in 1..MaxCalls : RoScanResumes(c)

SpecEdit ==
    InitEdit /\ [][NextEdit]_vars /\ WF_vars(\E c \in 1..MaxCalls : RoScanResumes(c))

---------------------------------------------------------------------------
(* SpecIgnore: the ignore matcher `ig`, the initial loadGitignore() that   *)
(* activate() starts without awaiting it, the open/save handlers and the   *)
(* readyornot.scanVulnerabilities command of the ReadyOrNot extension.     *)
(* Every step is one turn of the event loop: a handler or a continuation   *)
(* after an await on the editor (findFiles, openTextDocument).  The        *)
(* continuation of await runAudit(...) is a microtask and runs within the  *)
(* turn that called scanDocument.                                          *)

\* The relative paths of the workspace's documents.
DocPaths == {DocPath(d) : d \in DocIds}

\* const severityWeight = { 'Error': 0, 'Warning': 1, 'Info': 2 }, and 3 for
\* any other severity (?? 3).
severityWeight(severity) ==
    IF severity = "Error" THEN 0
    ELSE IF severity = "Warning" THEN 1
    ELSE IF severity = "Info" THEN 2
    ELSE 3

Unsorted(rows) == rows

\* results.sort((a, b) => weight(a) - weight(b)): Array.prototype.sort is
\* stable, so the rows of one weight keep their order.
SortBySeverity(rows) ==
    LET bucket(w) == FilterIdx(rows,
                               {i \in 1..Len(rows) :
                                   severityWeight(rows[i].severity) = w}, 1)
    IN  bucket(0) \o bucket(1) \o bucket(2) \o bucket(3)

\* getWebviewContent(results): the table rows, one for each result, in the
\* order of the sorted array.
getWebviewContent(rows) == SortBySeverity(rows)

\* The rows vibecheck's command pushes to allResults for one file, from the
\* diagnostics scanDocument has just set: the label is the displaySeverity of
\* the rule with the diagnostic's code, Warning for the two architecture
\* codes, Info otherwise.
VcResults(diags, path) ==
    [n \in 1..Len(diags) |->
        ResultRow(path, diags[n].line + 1, diags[n].code,
                  IF \E k \in 1..Len(vulnerabilityRules) :
                        vulnerabilityRules[k].id = diags[n].code
                  THEN vulnerabilityRules[
                          CHOOSE k \in 1..Len(vulnerabilityRules) :
                             /\ vulnerabilityRules[k].id = diags[n].code
                             /\ \A j \in 1..(k - 1) :
                                   vulnerabilityRules[j].id # diags[n].code
                       ].displaySeverity
                  ELSE IF diags[n].code \in {"architecture-fragility",
                                             "architecture-fragility-db"}
                  THEN "Warning"
                  ELSE "Info")]

\* What one call of ReadyOrNot's scanDocument, or one round of the command's
\* loop, sets for the document: the diagnostics of its audit.
RoPublished(doc) ==
    <<RoDiagnostics(runAudit(<<File(doc.fsPath, doc.content)>>).vulnerabilities,
                    doc)>>

\* The state after activate() returned: loadGitignore() has replaced ig by a
\* matcher holding the built-in folder names only and is waiting for
\* findFiles; no document is open yet.
InitIgnore ==
    /\ docs \in ScanInputs
    /\ ig = {}
    /\ gitignore \in SUBSET DocPaths
    /\ cmd = [initLoad |-> "pending", pc |-> "idle", seen |-> {}, todo |-> <<>>,
              allResults |-> <<>>, html |-> <<>>]
    /\ opened = {}
    /\ vcLastIndex = [k \in 1..Len(vulnerabilityRules) |-> 0]
    /\ vcDiag = [d \in DocIds |-> <<>>]
    /\ vcRescanned = FALSE
    /\ roCalls = [c \in 1..MaxCalls |-> IdleCall]
    /\ roDiag = [d \in DocIds |-> <<>>]
    /\ ScoreIdle
    /\ AuditIdle

\* The loadGitignore() of activate() resumes after its awaits and adds the
\* lines of .gitignore to whatever matcher the variable ig refers to now.
InitialLoadFinishes ==
    /\ cmd.initLoad = "pending"
    /\ ig' = ig \cup gitignore
    /\ cmd' = [cmd EXCEPT !.initLoad = "done"]
    /\ UNCHANGED <<docs, gitignore, opened, vcLastIndex, vcDiag, vcRescanned,
                   roCalls, roDiag, scoreVars, auditVars>>

\* A pattern matching path p is appended to .gitignore on disk.
GitignoreGains(p) ==
    /\ p \notin gitignore
    /\ gitignore' = gitignore \cup {p}
    /\ UNCHANGED <<docs, ig, cmd, opened, vcLastIndex, vcDiag, vcRescanned,
                   roCalls, roDiag, scoreVars, auditVars>>

\* onDidOpenTextDocument / onDidSaveTextDocument: scanDocument(document).
DocumentOpens(d) ==
    /\ roDiag' = [roDiag EXCEPT ![d] =
            IF docs[d].scheme # "file" THEN @
            ELSE IF Ignores(docs[d].fsPath) THEN << <<>> >>
            ELSE RoPublished(docs[d])]
    /\ opened' = IF docs[d].fsPath \in gitignore THEN opened \cup {d} ELSE opened
    /\ UNCHANGED <<docs, ig, gitignore, cmd, vcLastIndex, vcDiag, vcRescanned,
                   roCalls, scoreVars, auditVars>>

\* The command's callback up to its first await: diagnosticCollection.clear()
\* and the synchronous part of loadGitignore(), which replaces ig.
CommandStarts ==
    /\ cmd.pc = "idle"
    /\ roDiag' = [d \in DocIds |-> <<>>]
    /\ ig' = {}
    /\ cmd' = [cmd EXCEPT !.pc = "loading", !.seen = gitignore]
    /\ UNCHANGED <<docs, gitignore, opened, vcLastIndex, vcDiag, vcRescanned,
                   roCalls, scoreVars, auditVars>>

\* await loadGitignore() returns: the lines of .gitignore have been added.
CommandLoadFinishes ==
    /\ cmd.pc = "loading"
    /\ ig' = ig \cup gitignore
    /\ cmd' = [cmd EXCEPT !.pc = "listing"]
    /\ UNCHANGED <<docs, gitignore, opened, vcLastIndex, vcDiag, vcRescanned,
                   roCalls, roDiag, scoreVars, auditVars>>

\* await findFiles('**/*.*') returns and rawFiles.filter keeps the files the
\* matcher does not ignore.
CommandListsFiles ==
    /\ cmd.pc = "listing"
    /\ cmd' = [cmd EXCEPT !.pc = "scanning",
                          !.todo = FilterIdx([d \in DocIds |-> d],
                                             {d \in DocIds : ~Ignores(DocPath(d))}, 1)]
    /\ UNCHANGED <<docs, ig, gitignore, opened, vcLastIndex, vcDiag, vcRescanned,
                   roCalls, roDiag, scoreVars, auditVars>>

\* One round of for (const uri of files): open the document, audit it, set
\* its diagnostics.
CommandScansFile ==
    /\ cmd.pc = "scanning"
    /\ cmd.todo # <<>>
    /\ roDiag' = [roDiag EXCEPT ![Head(cmd.todo)] = RoPublished(docs[Head(cmd.todo)])]
    /\ cmd' = [cmd EXCEPT
          !.todo = Tail(cmd.todo),
          !.allResults = @ \o
              LET doc == docs[Head(cmd.todo)]
              IN  RoResults(runAudit(<<File(doc.fsPath, doc.content)>>).vulnerabilities,
                            doc)]
    /\ UNCHANGED <<docs, ig, gitignore, opened, vcLastIndex, vcDiag, vcRescanned,
                   roCalls, scoreVars, auditVars>>

\* The loop is over and the results are rendered; the sort inside
\* getWebviewContent reorders the allResults array itself.
CommandCompletes ==
    /\ cmd.pc = "scanning"
    /\ cmd.todo = <<>>
    /\ cmd' = [cmd EXCEPT !.pc = "done",
                          !.allResults = SortBySeverity(@),
                          !.html = <<getWebviewContent(cmd.allResults)>>]
    /\ UNCHANGED <<docs, ig, gitignore, opened, vcLastIndex, vcDiag, vcRescanned,
                   roCalls, roDiag, scoreVars, auditVars>>

NextIgnore ==
    \/ InitialLoadFinishes
    \/ \E p \in DocPaths : GitignoreGains(p)
    \/ \E d \in DocIds : DocumentOpens(d)
    \/ CommandStarts
    \/ CommandLoadFinishes
    \/ CommandListsFiles
    \/ CommandScansFile
    \/ CommandCompletes

SpecIgnore == InitIgnore /\ [][NextIgnore]_vars

---------------------------------------------------------------------------
(* Claims about the scoring engine *)

NumWith(vs, sev) == Cardinality({i \in 1..Len(vs) : vs[i].severity = sev})

RawScore(vs) ==
    100 - 25 * NumWith(vs, "ERROR") - 10 * NumWith(vs, "WARNING")
        - 2 * NumWith(vs, "INFO")

\* C1: for every finding list, finalScore is
\* clamp(100 - 25*errors - 10*warnings - 2*infos, 0, 100); a report is always
\* produced, and the empty list scores 100 with decision GO.
C1_ScoreFormula ==
    /\ scored.finalScore = (IF RawScore(vulns) < 0 THEN 0
                             ELSE IF RawScore(vulns) > 100 THEN 100
                             ELSE RawScore(vulns))
    /\ scored.finalScore \in 0..100
    /\ scored.decision \in {"GO", "NO-GO"}
    /\ scored.vulnerabilities = vulns
    /\ vulns = <<>> => scored.finalScore = 100 /\ scored.decision = "GO"

\* The clamp is at work: the raw score is negative and the report says 0.
C1_Witness == RawScore(vulns) < 0 /\ scored.finalScore = 0

\* C2: decision is NO-GO iff errorCount > 0 or finalScore < 50, else GO; one
\* ERROR alone (score 75) is NO-GO, six WARNINGs alone (score 40) are NO-GO.
C2_DecisionGate ==
    /\ scored.decision = "NO-GO"
          <=> (NumWith(vulns, "ERROR") > 0 \/ scored.finalScore < 50)
    /\ scored.decision = "GO"
          <=> ~(NumWith(vulns, "ERROR") > 0 \/ scored.finalScore < 50)
    /\ (NumWith(vulns, "ERROR") = 1 /\ Len(vulns) = 1)
          => scored.finalScore = 75 /\ scored.decision = "NO-GO"
    /\ (NumWith(vulns, "WARNING") = 6 /\ Len(vulns) = 6)
          => scored.finalScore = 40 /\ scored.decision = "NO-GO"

\* The error-count gate alone decides: one ERROR, score 75, NO-GO.
C2_Witness ==
    /\ Len(vulns) = 1
    /\ scored.errorCount = 1
    /\ scored.finalScore = 75
    /\ scored.decision = "NO-GO"

\* C8: scoring L plus an ERROR finding never gives a higher score than
\* scoring L, and a NO-GO for L stays NO-GO for L plus any finding.
C8_Monotone ==
    [][ (vulns' # vulns) =>
          /\ (vulns'[Len(vulns')].severity = "ERROR"
                => scored'.finalScore <= scored.finalScore)
          /\ (scored.decision = "NO-GO" => scored'.decision = "NO-GO") ]_vars

\* A list that was NO-GO through the score floor alone has grown by an INFO
\* finding and is still NO-GO.
C8_Witness ==
    /\ Len(vulns) >= 2
    /\ vulns[Len(vulns)].severity = "INFO"
    /\ NumWith(vulns, "ERROR") = 0
    /\ scored.finalScore + 2 < 50
    /\ scored.decision = "NO-GO"

---------------------------------------------------------------------------
(* Claims about the orchestrator *)

Returned == report # <<>>

Reported == report[1].vulnerabilities

\* The findings of the five agents in the order of the source, each taken
\* from the agent's own function of the files.
AllInSourceOrder ==
    runSecurityAgent(files) \o runDependencyAgent(files)
    \o runComplianceAgent(files) \o runAiRiskAgent(files)
    \o runArchitectureAgent(files)

KeyOf(f) == <<f.id, f.file, f.line>>

\* C3: the findings of every report returned by runAudit hold at most one
\* finding per dedup key (id, file, line); findings emitted several times
\* with one key collapse to exactly one.
C3_OnePerKey ==
    Returned =>
        /\ \A i, j \in 1..Len(Reported) :
              KeyOf(Reported[i]) = KeyOf(Reported[j]) => i = j
        /\ \A k \in 1..Len(AllInSourceOrder) :
              \E i \in 1..Len(Reported) :
                 KeyOf(Reported[i]) = KeyOf(AllInSourceOrder[k])

\* A key was emitted twice, with different texts, and is in the report once.
C3_Witness ==
    /\ Returned
    /\ \E i, j \in 1..Len(AllInSourceOrder) :
          /\ i < j
          /\ KeyOf(AllInSourceOrder[i]) = KeyOf(AllInSourceOrder[j])
          /\ AllInSourceOrder[i] # AllInSourceOrder[j]
          /\ Cardinality({k \in 1..Len(Reported) :
                KeyOf(Reported[k]) = KeyOf(AllInSourceOrder[i])}) = 1

\* C4: for each key the report keeps the first finding in the order
\* Security, Dependency, Compliance, AiRisk, Architecture (emission order
\* within an agent), the kept findings keep their relative order, and none
\* of this depends on which agent finished first.
C4_FirstInSourceOrder ==
    Returned =>
        LET all == AllInSourceOrder
            firsts == {i \in 1..Len(all) :
                         \A j \in 1..(i - 1) : KeyOf(all[j]) # KeyOf(all[i])}
        IN  Reported = FilterIdx(all, firsts, 1)

\* The agent that finished first is not the first of the source order, a
\* later duplicate with another text was dropped, and findings of two agents
\* are in the report.
C4_Witness ==
    /\ Returned
    /\ firstDone \notin {"", "SecurityAgent"}
    /\ \E i, j \in 1..Len(AllInSourceOrder) :
          /\ i < j
          /\ KeyOf(AllInSourceOrder[i]) = KeyOf(AllInSourceOrder[j])
          /\ AllInSourceOrder[i] \in Range(Reported)
          /\ AllInSourceOrder[j] \notin Range(Reported)
    /\ \E i, j \in 1..Len(Reported) : Reported[i].agentSource # Reported[j].agentSource

\* C5: a report exists only once all five agents have completed, and it is
\* built from the results of all five, never from a strict subset.
C5_JoinIsBarrier ==
    Returned =>
        /\ done = Agents
        /\ \A a \in Agents : \A k \in 1..Len(ForEachFile(a, files, 1)) :
              \E i \in 1..Len(Reported) :
                 KeyOf(Reported[i]) = KeyOf(ForEachFile(a, files, 1)[k])

\* A report in which each of the five agents has a finding.
C5_Witness ==
    /\ Returned
    /\ \A a \in Agents : \E i \in 1..Len(Reported) : Reported[i].agentSource = a

\* C6: whatever the order in which the agents run and complete, each agent's
\* result is what it computes alone, and the report (findings and their
\* order, counts, score, decision) is the one of running the agents one
\* after another.
C6_OrderIndependent ==
    /\ \A a \in done : results[a] = ForEachFile(a, files, 1)
    /\ Returned => report[1] = runAudit(files)

\* The last agent of the source order finished first, and at least two
\* agents have findings in the report.
C6_Witness ==
    /\ Returned
    /\ firstDone = "ArchitectureAgent"
    /\ \E i, j \in 1..Len(Reported) : Reported[i].agentSource # Reported[j].agentSource

EvalCalls(file) == {k \in 1..Len(file.content) : file.content[k] = "evalCall"}

\* C9: a .ts/.js/.jsx/.tsx file that contains the eval(...) call has exactly
\* one eval-usage finding in the report.
C9_OneEvalFinding ==
    Returned =>
        \A n \in 1..Len(files) :
            (IsScriptPath(files[n].fsPath) /\ Cardinality(EvalCalls(files[n])) = 1
                /\ \A m \in 1..Len(files) : files[m].fsPath = files[n].fsPath => m = n)
            => Cardinality({i \in 1..Len(Reported) :
                    Reported[i].id = "eval-usage"
                    /\ Reported[i].file = files[n].fsPath}) = 1

\* C10: when the tree walk of a file throws, runAudit still returns, the
\* structural pass has contributed nothing for that file, and the textual
\* pass has run for it and reports each eval(...) call of the file.
C10_FallbackToText ==
    /\ (done = Agents /\ ~Returned) => ENABLED AuditReturns
    /\ Returned =>
        \A n \in 1..Len(files) :
            AstThrows(files[n]) =>
                /\ AstFindings(files[n]) = <<>>
                /\ \A k \in 1..Len(files[n].content) :
                      files[n].content[k] \in secretRegex =>
                         \E i \in 1..Len(Reported) :
                            KeyOf(Reported[i]) =
                               <<"env-isolation", files[n].fsPath,
                                 LineOfOffset(files[n].content, k - 1)>>
                /\ \A k \in EvalCalls(files[n]) :
                      \E i \in 1..Len(Reported) :
                         KeyOf(Reported[i]) =
                            <<"eval-usage", files[n].fsPath,
                              LineOfOffset(files[n].content, k - 1)>>

---------------------------------------------------------------------------
(* Claims about repeated scans *)

Started(c) == roCalls[c].st # "idle"

\* Two calls of ReadyOrNot's scanDocument captured the same file.
SameCapture(c1, c2) ==
    /\ Started(c1)
    /\ Started(c2)
    /\ docs[roCalls[c1].doc].fsPath = docs[roCalls[c2].doc].fsPath
    /\ roCalls[c1].content = roCalls[c2].content

\* C7: two scans of the same file give the same findings in the same order,
\* counts, score and decision, back to back or overlapping, in both
\* extensions; no RegExp keeps a lastIndex from one call to the next, and a
\* rescan of an unchanged document republishes the same diagnostics.
C7_ScansRepeat ==
    /\ [](\A c1, c2 \in 1..MaxCalls :
            SameCapture(c1, c2) => roCalls[c1].report = roCalls[c2].report)
    /\ [](\A k \in 1..Len(vulnerabilityRules) : vcLastIndex[k] = 0)
    /\ [][\A d \in DocIds :
            /\ (vcDiag[d] # <<>> /\ docs'[d] = docs[d]) => vcDiag'[d] = vcDiag[d]
            /\ (roDiag[d] # <<>> /\ docs'[d] = docs[d]) => roDiag'[d] = roDiag[d]]_vars

\* Two overlapping ReadyOrNot calls have scanned one document that has a
\* finding and both have published; vibecheck has scanned a
\* document a second time and holds two diagnostics of one rule for it.
C7_Witness ==
    /\ vcRescanned
    /\ \E c1, c2 \in 1..MaxCalls :
          /\ c1 # c2
          /\ roCalls[c1].st = "done"
          /\ roCalls[c2].st = "done"
          /\ SameCapture(c1, c2)
          /\ Len(roCalls[c1].report[1].vulnerabilities) >= 1
          /\ LET d == roCalls[c1].doc
             IN  /\ vcDiag[d] # <<>>
                 /\ \E i, j \in 1..Len(vcDiag[d][1]) :
                       i # j /\ vcDiag[d][1][i].code = vcDiag[d][1][j].code

---------------------------------------------------------------------------
(* Claims about the Dependency agent *)

DepFindings == results["DependencyAgent"]

\* The files of the list with path p whose content cannot be read as a
\* manifest: JSON.parse rejects it, or it is null.
CannotBeRead(content) ==
    ~JsonValid(content) \/ JsonBody(content) = <<"jsonNull">>

UnreadableManifests(p) ==
    {n \in 1..Len(files) : files[n].fsPath = p /\ CannotBeRead(files[n].content)}

---------------------------------------------------------------------------
(* Claims about completion *)

\* C12: every call of runAudit ends with a report, whatever the files hold:
\* no agent's promise rejects, and the report's decision is GO or NO-GO.
C12_AlwaysReports ==
    /\ <>Returned
    /\ [](\A a \in Agents : ~Rejects(a, files))
    /\ [](Returned => report[1].decision \in {"GO", "NO-GO"})

\* A report for a list holding a source file whose tree walk throws and a
\* manifest that cannot be read.
C12_Witness ==
    /\ Returned
    /\ \E n \in 1..Len(files) : AstThrows(files[n])
    /\ \E n \in 1..Len(files) :
          IsManifestPath(files[n].fsPath) /\ ~JsonParses(files[n].content)

---------------------------------------------------------------------------
(* Claims about the textual rules *)

TextualRuleIds ==
    {"env-isolation", "debug-exposure", "pii-leakage", "observability-failure",
     "ai-prompt-injection", "architecture-fragility-db"}

\* Whether the textual rule id is run on files of path p.
RunsOn(id, p) ==
    CASE id \in {"pii-leakage", "observability-failure"} -> IsCompliancePath(p)
      [] id = "ai-prompt-injection" -> IsAiRiskPath(p)
      [] id = "architecture-fragility-db" -> IsComponentPath(p)
      [] OTHER -> TRUE

\* Whether the pattern of the textual rule id matches at token tok.
MatchesAt(id, tok) ==
    CASE id = "env-isolation" -> tok \in secretRegex
      [] id = "debug-exposure" -> tok \in debugRegex
      [] id = "pii-leakage" -> tok \in piiRegex
      [] id = "observability-failure" -> tok \in basicLoggingRule
      [] id = "ai-prompt-injection" -> tok \in promptInjectionRegex
      [] id = "architecture-fragility-db" -> tok \in serverDbImports
      [] OTHER -> FALSE

\* C13: every textual match is reported at line 1 + the number of line feeds
\* before its offset, so a match at the first character of line N is
\* reported at line N, the first and the last line included; and every
\* textual finding of the report lies on the line of such a match.
C13_LineOfMatch ==
    Returned =>
        /\ \A n \in 1..Len(files) : \A k \in 1..Len(files[n].content) :
              \A id \in TextualRuleIds :
                 (RunsOn(id, files[n].fsPath) /\ MatchesAt(id, files[n].content[k]))
                    => \E i \in 1..Len(Reported) :
                          KeyOf(Reported[i]) =
                             <<id, files[n].fsPath,
                               1 + NewlinesBefore(files[n].content, k - 1)>>
        /\ \A i \in 1..Len(Reported) :
              Reported[i].id \in TextualRuleIds
                 => \E n \in 1..Len(files) : \E k \in 1..Len(files[n].content) :
                       /\ files[n].fsPath = Reported[i].file
                       /\ MatchesAt(Reported[i].id, files[n].content[k])
                       /\ Reported[i].line =
                             1 + NewlinesBefore(files[n].content, k - 1)

\* A match at the first character of the last line, line 2, reported at
\* line 2.
C13_Witness ==
    /\ Returned
    /\ Len(files) = 1
    /\ Len(files[1].content) = 2
    /\ files[1].content[1] = "nl"
    /\ \E id \in TextualRuleIds : \E i \in 1..Len(Reported) :
          /\ MatchesAt(id, files[1].content[2])
          /\ KeyOf(Reported[i]) = <<id, files[1].fsPath, 2>>

\* The file name of the path is package.json.
NamedPackageJson(p) == p = "package.json"

\* The extension of the path is .jsx or .tsx.
ComponentFile(p) == p = "b.tsx"

\* C14: a finding of a manifest rule is always on a file named package.json,
\* and a finding of architecture-fragility-db is always on a .jsx/.tsx file.
C14_RulesByFileKind ==
    \A a \in Agents : \A i \in 1..Len(results[a]) :
        /\ results[a][i].id \in {"blacklisted-dependency", "malformed-package-json"}
              => NamedPackageJson(results[a][i].file)
        /\ results[a][i].id = "architecture-fragility-db"
              => ComponentFile(results[a][i].file)

---------------------------------------------------------------------------
(* Claims about the counts of a report *)

\* The distinct (id, file, line) keys of severity sev among all the findings
\* the agents pushed.
KeysWith(sev) ==
    {KeyOf(f) : f \in {g \in Range(Aggregate(results, 1)) : g.severity = sev}}

\* C15: in a report, the three counts are the numbers of ERROR, WARNING and
\* INFO findings of its list, the list is the deduplicated one (one finding
\* per key), and the counts add up to totalVulnerabilities, the length of
\* the list.
C15_CountsMatchList ==
    Returned =>
        LET r == report[1]
        IN  /\ r.errorCount = NumWith(r.vulnerabilities, "ERROR")
            /\ r.warningCount = NumWith(r.vulnerabilities, "WARNING")
            /\ r.infoCount = NumWith(r.vulnerabilities, "INFO")
            /\ r.errorCount = Cardinality(KeysWith("ERROR"))
            /\ r.warningCount = Cardinality(KeysWith("WARNING"))
            /\ r.infoCount = Cardinality(KeysWith("INFO"))
            /\ r.errorCount + r.warningCount + r.infoCount = r.totalVulnerabilities
            /\ r.totalVulnerabilities = Len(r.vulnerabilities)

\* A report whose agents pushed more findings than the list holds, with one
\* count at least 1.
C15_Witness ==
    /\ Returned
    /\ Len(Aggregate(results, 1)) > report[1].totalVulnerabilities
    /\ report[1].totalVulnerabilities >= 1

---------------------------------------------------------------------------
(* Claims about the order of the files *)

\* The file lists that hold the files of fs in another order.
Permutations(fs) ==
    {[i \in 1..Len(fs) |-> fs[pi[i]]] :
        pi \in {f \in [1..Len(fs) -> 1..Len(fs)] :
                   \A i, j \in 1..Len(fs) : f[i] = f[j] => i = j}}

DistinctPaths(fs) == \A i, j \in 1..Len(fs) : fs[i].fsPath = fs[j].fsPath => i = j

KeysAndSeverities(vs) == {<<f.id, f.file, f.line, f.severity>> : f \in Range(vs)}

SameScoreDetails(r, q) ==
    /\ r.totalVulnerabilities = q.totalVulnerabilities
    /\ r.errorCount = q.errorCount
    /\ r.warningCount = q.warningCount
    /\ r.infoCount = q.infoCount
    /\ r.finalScore = q.finalScore
    /\ r.decision = q.decision

\* C16 as amended: the audit of the same files in another order has the
\* same rule ids, files, lines and severities, the same counts, score and
\* decision; its findings are the same records when no path occurs twice in
\* the list.
C16_OrderUpToTieBreak ==
    Returned =>
        \A fs \in Permutations(files) :
            LET q == runAudit(fs)
            IN  /\ KeysAndSeverities(q.vulnerabilities) = KeysAndSeverities(Reported)
                /\ SameScoreDetails(report[1], q)
                /\ DistinctPaths(files)
                      => Range(q.vulnerabilities) = Range(Reported)

\* Files of distinct paths whose audit in another order lists the same
\* findings in another order.
C16_Witness ==
    /\ Returned
    /\ DistinctPaths(files)
    /\ \E fs \in Permutations(files) :
          /\ runAudit(fs).vulnerabilities # Reported
          /\ Range(runAudit(fs).vulnerabilities) = Range(Reported)

\* C16 as stated: the audit of the same files in another order has the same
\* set of findings, counts, score and decision.
C16_OrderIrrelevant ==
    Returned =>
        \A fs \in Permutations(files) :
            LET q == runAudit(fs)
            IN  /\ Range(q.vulnerabilities) = Range(Reported)
                /\ SameScoreDetails(report[1], q)

---------------------------------------------------------------------------
(* Claims about the documented score table *)

\* C17: the status follows the documented table: GO for a score of 80 to
\* 100, REVIEW for 60 to 79, NO-GO below 60.
C17_StatusByScore ==
    /\ scored.finalScore >= 80 => scored.decision = "GO"
    /\ (scored.finalScore >= 60 /\ scored.finalScore <= 79)
          => scored.decision = "REVIEW"
    /\ scored.finalScore < 60 => scored.decision = "NO-GO"

---------------------------------------------------------------------------
(* Claims about ignored files *)

NoDiagnostics(d) == roDiag[d] = <<>> \/ Len(roDiag[d][1]) = 0

\* C18: when the scan command has completed, a document that .gitignore
\* matched when the command started and when the document was opened has no
\* diagnostics.
C18_IgnoredFileIsClean ==
    \A d \in DocIds :
        (cmd.pc = "done" /\ d \in opened /\ DocPath(d) \in cmd.seen)
            => NoDiagnostics(d)

---------------------------------------------------------------------------
(* Claims about the diagnostics of an opened document *)

Contains(content, tok) == \E k \in 1..Len(content) : content[k] = tok

\* The codes of the diagnostics whose source is exactly 'ReadyOrNot'.
CodesOfReadyOrNot(diags) ==
    {diags[i].code : i \in {j \in 1..Len(diags) : diags[j].source = "ReadyOrNot"}}

ExpectedCodes == {"eval-usage", "dangerously-set-inner-html", "env-isolation"}

HasAllThree(d) ==
    /\ docs[d].scheme = "file"
    /\ IsScriptPath(docs[d].fsPath)
    /\ Contains(docs[d].content, "evalCall")
    /\ Contains(docs[d].content, "secret")
    /\ Contains(docs[d].content, "dsih")

\* C19: once a scan of a .ts/.js/.jsx/.tsx document that holds an eval call,
\* a secret assignment and a dangerouslySetInnerHTML attribute has set its
\* diagnostics, those of source 'ReadyOrNot' include the codes eval-usage,
\* dangerously-set-inner-html and env-isolation.
C19_OpenedFileIsFlagged ==
    \A d \in DocIds :
        HasAllThree(d) =>
            /\ vcDiag[d] # <<>> => ExpectedCodes \subseteq CodesOfReadyOrNot(vcDiag[d][1])
            /\ roDiag[d] # <<>> => ExpectedCodes \subseteq CodesOfReadyOrNot(roDiag[d][1])

\* The editor severity the claim gives to a finding severity.
ClaimedSeverity(sev) ==
    IF sev \in {"ERROR", "WARNING", "Error", "Warning"} THEN "Warning"
    ELSE "Information"

\* The rule of vibecheck's table with this id.
RuleOf(code) ==
    vulnerabilityRules[CHOOSE k \in 1..Len(vulnerabilityRules) :
                          vulnerabilityRules[k].id = code]

\* The finding's line is one of the document's lines.
WithinDocument(f, content) == Max(0, f.line - 1) < DocumentLineCount(content)

\* The findings of a report whose line is one of the document's lines.
FindingsWithin(vs, content) ==
    FilterIdx(vs, {i \in 1..Len(vs) : WithinDocument(vs[i], content)}, 1)

---------------------------------------------------------------------------
(* Claims about findings beyond the end of the document *)

\* The document with this path.
DocOfPath(p) == docs[CHOOSE d \in DocIds : DocPath(d) = p]

\* The findings of an audit of the document as it is now.
AuditOf(doc) == runAudit(<<File(doc.fsPath, doc.content)>>).vulnerabilities

\* C21: every published ReadyOrNot diagnostic lies on a line of its document,
\* at index max(0, finding.line - 1); every row of the dashboard results
\* names a line of its file; and the diagnostics and rows of a file are those
\* of its findings within the document, the others being dropped from both.
C21_SkipsBeyondEnd ==
    /\ \A d \in DocIds :
          (roDiag[d] # <<>> /\ roDiag[d][1] # <<>>) =>
             LET vs == FindingsWithin(AuditOf(docs[d]), docs[d].content)
                 dg == roDiag[d][1]
             IN  /\ Len(dg) = Len(vs)
                 /\ \A i \in 1..Len(dg) :
                       /\ dg[i].line = Max(0, vs[i].line - 1)
                       /\ dg[i].line < DocumentLineCount(docs[d].content)
    /\ \A i \in 1..Len(cmd.allResults) :
          LET row == cmd.allResults[i]
              doc == DocOfPath(row.file)
          IN  /\ Max(0, row.line - 1) < DocumentLineCount(doc.content)
              /\ \E k \in 1..Len(AuditOf(doc)) :
                    /\ AuditOf(doc)[k].id = row.code
                    /\ AuditOf(doc)[k].line = row.line
    /\ \A d \in DocIds :
          Cardinality({i \in 1..Len(cmd.allResults) :
                          cmd.allResults[i].file = DocPath(d)})
             \in {0, Len(FindingsWithin(AuditOf(docs[d]), docs[d].content))}

\* The command has scanned a file with one finding within the document and
\* one beyond its last line: the file has a diagnostic and a row for the
\* first and none for the second.
C21_Witness ==
    /\ cmd.pc = "done"
    /\ ig = {}
    /\ \E d \in DocIds :
          LET all == AuditOf(docs[d])
              within == FindingsWithin(all, docs[d].content)
          IN  /\ within # <<>>
              /\ Len(within) < Len(all)
              /\ roDiag[d] # <<>>
              /\ Len(roDiag[d][1]) = Len(within)
              /\ Cardinality({i \in 1..Len(cmd.allResults) :
                                 cmd.allResults[i].file = DocPath(d)}) = Len(within)


---------------------------------------------------------------------------
(* Claims about the rendered results *)

\* In these rows no Warning or Info row comes before an Error row and no
\* Info row before a Warning row.
ErrorsThenWarningsThenInfo(rows) ==
    \A i, j \in 1..Len(rows) :
        i < j =>
           /\ rows[j].severity = "Error" => rows[i].severity = "Error"
           /\ rows[j].severity = "Warning" => rows[i].severity \in {"Error", "Warning"}

\* The same rows, each as many times.
SameRows(r, q) ==
    /\ Len(r) = Len(q)
    /\ \A x \in Range(r) \cup Range(q) :
          Cardinality({i \in 1..Len(r) : r[i] = x})
             = Cardinality({i \in 1..Len(q) : q[i] = x})

\* The rows the ReadyOrNot command collects when it scans both documents,
\* in the order of the scan.
CollectedRows ==
    RoResults(AuditOf(docs[1]), docs[1]) \o RoResults(AuditOf(docs[2]), docs[2])

\* The rows vibecheck's command collects for the two documents.
VcCollectedRows ==
    LET rowsOf(d) ==
           VcResults(VcDiagnostics(docs[d],
                                   [k \in 1..Len(vulnerabilityRules) |-> 0]).diags,
                     DocPath(d))
    IN  rowsOf(1) \o rowsOf(2)

\* C22: the table the results panel renders lists every collected result
\* once, all Error rows first, then all Warning rows, then all Info rows, in
\* ReadyOrNot's panel and in vibecheck's.
C22_RenderedBySeverity ==
    /\ [](/\ cmd.html # <<>> => ErrorsThenWarningsThenInfo(cmd.html[1])
          /\ ErrorsThenWarningsThenInfo(getWebviewContent(VcCollectedRows))
          /\ SameRows(getWebviewContent(VcCollectedRows), VcCollectedRows))
    /\ [][(cmd.html = <<>> /\ cmd'.html # <<>>)
            => SameRows(cmd'.html[1], cmd.allResults)]_vars

\* The panel shows an Error row and an Info row that were collected in the
\* other order, in both extensions.
C22_Witness ==
    /\ cmd.html # <<>>
    /\ ig = {}
    /\ SameRows(cmd.html[1], CollectedRows)
    /\ ~ErrorsThenWarningsThenInfo(CollectedRows)
    /\ ~ErrorsThenWarningsThenInfo(VcCollectedRows)
    /\ \E i, j \in 1..Len(cmd.html[1]) :
          cmd.html[1][i].severity = "Error" /\ cmd.html[1][j].severity = "Info"


---------------------------------------------------------------------------
(* Claims about overlapping scans of edited documents *)

\* Call c2 was made while call c1, made earlier for the same document, was
\* still suspended.
Overlapped(c1, c2) ==
    /\ roCalls[c1].st # "idle"
    /\ roCalls[c2].st # "idle"
    /\ roCalls[c1].doc = roCalls[c2].doc
    /\ roCalls[c1].ticket < roCalls[c2].ticket
    /\ roCalls[c2].queued >= 1

\* C23: a scan call, once made, keeps its document, its captured text and
\* its report and is never taken back, whatever calls are made after it; it
\* holds the report of an audit of the text it captured; and every call that
\* is suspended at its await is resumed and completes.
C23_NoCancellation ==
    /\ [][\A c \in 1..MaxCalls :
            roCalls[c].st # "idle" =>
               /\ roCalls'[c].doc = roCalls[c].doc
               /\ roCalls'[c].content = roCalls[c].content
               /\ roCalls'[c].report = roCalls[c].report
               /\ roCalls'[c].st \in {roCalls[c].st, "done"}]_vars
    /\ [](\A c \in 1..MaxCalls :
            roCalls[c].st # "idle" =>
               roCalls[c].report =
                  <<runAudit(<<File(DocPath(roCalls[c].doc), roCalls[c].content)>>)>>)
    /\ \A c \in 1..MaxCalls :
          (roCalls[c].st = "awaiting") ~> (roCalls[c].st = "done")

\* A document was scanned again while its first scan was suspended and
\* after an edit; both calls have completed, each with its own report.
C23_Witness ==
    \E c1, c2 \in 1..MaxCalls :
        /\ Overlapped(c1, c2)
        /\ roCalls[c1].st = "done"
        /\ roCalls[c2].st = "done"
        /\ roCalls[c1].report # roCalls[c2].report

\* Code and line index of the diagnostics these findings give in a document
\* with this text.
CodesAndLines(vs, content) ==
    LET shown == FindingsWithin(vs, content)
    IN  [n \in 1..Len(shown) |-> <<shown[n].id, Max(0, shown[n].line - 1)>>]

\* Code and line index of the stored diagnostics of document d.
StoredCodesAndLines(d) ==
    [n \in 1..Len(roDiag[d][1]) |-> <<roDiag[d][1][n].code, roDiag[d][1][n].line>>]

\* The completed call for document d that was made last.
LatestDone(d) ==
    CHOOSE c \in 1..MaxCalls :
        /\ roCalls[c].st = "done"
        /\ roCalls[c].doc = d
        /\ \A c2 \in 1..MaxCalls :
              (roCalls[c2].st = "done" /\ roCalls[c2].doc = d)
                 => roCalls[c2].ticket <= roCalls[c].ticket

\* C28: a call that completes sets its document's diagnostics to those of
\* its own report (the findings on lines the document has at that moment),
\* and no call made after it for the same document has completed before it;
\* so once no call is suspended, the diagnostics stored for a document come
\* from the report of the text captured last.
C28_LatestCaptureWins ==
    /\ [][\A c \in 1..MaxCalls :
            (roCalls[c].st = "awaiting" /\ roCalls'[c].st = "done") =>
               /\ \A c2 \in 1..MaxCalls :
                     (roCalls[c2].st = "done" /\ roCalls[c2].doc = roCalls[c].doc)
                        => roCalls[c2].ticket < roCalls[c].ticket
               /\ roDiag'[roCalls[c].doc] # <<>>
               /\ [n \in 1..Len(roDiag'[roCalls[c].doc][1]) |->
                      <<roDiag'[roCalls[c].doc][1][n].code,
                        roDiag'[roCalls[c].doc][1][n].line>>]
                     = CodesAndLines(roCalls[c].report[1].vulnerabilities,
                                     docs[roCalls[c].doc].content)]_vars
    /\ [](CallsInFlight = 0 =>
            \A d \in DocIds :
               (\E c \in 1..MaxCalls : roCalls[c].st = "done" /\ roCalls[c].doc = d) =>
                  LET last == roCalls[LatestDone(d)]
                      all == last.report[1].vulnerabilities
                  IN  /\ roDiag[d] # <<>>
                      /\ Range(StoredCodesAndLines(d))
                            \subseteq {<<all[k].id, Max(0, all[k].line - 1)>> :
                                          k \in 1..Len(all)})

\* Two calls for one document overlapped, the second after an edit that
\* changed the findings; both have completed and the document has its
\* second call's diagnostics, which are not the first call's.
C28_Witness ==
    \E c1, c2 \in 1..MaxCalls :
        /\ Overlapped(c1, c2)
        /\ CallsInFlight = 0
        /\ roCalls[c1].st = "done"
        /\ roCalls[c2].st = "done"
        /\ docs[roCalls[c2].doc].content = roCalls[c2].content
        /\ CodesAndLines(roCalls[c1].report[1].vulnerabilities, roCalls[c2].content)
              # CodesAndLines(roCalls[c2].report[1].vulnerabilities, roCalls[c2].content)
        /\ StoredCodesAndLines(roCalls[c2].doc)
              = CodesAndLines(roCalls[c2].report[1].vulnerabilities, roCalls[c2].content)


---------------------------------------------------------------------------
(* Claims about the oversized-file rule *)

\* The lines of a text: those ended by a line feed, and the unterminated
\* last one if there is text after the last line feed.
FileLines(content) ==
    NewlinesBefore(content, Len(content))
       + (IF content # <<>> /\ Newlines(content[Len(content)]) = 0 THEN 1 ELSE 0)

\* The architecture-fragility findings of the report.
GodObjectFindings ==
    LET vs == report[1].vulnerabilities
    IN  FilterIdx(vs, {i \in 1..Len(vs) : vs[i].id = "architecture-fragility"}, 1)

\* The architecture-fragility diagnostics vibecheck gives the same file.
VcGodObjectDiagnostics ==
    LET dg == VcDiagnostics(Document("file", files[1].fsPath, files[1].content),
                            [k \in 1..Len(vulnerabilityRules) |-> 0]).diags
    IN  FilterIdx(dg, {i \in 1..Len(dg) : dg[i].code = "architecture-fragility"}, 1)

\* C24: a file of at most 1000 lines, whether or not its last line ends
\* with a line feed, has no architecture-fragility finding; a file of more
\* than 1000 lines has exactly one, at line 1; in ReadyOrNot's report and in
\* vibecheck's diagnostics alike.
C24_OversizedByLines ==
    report # <<>> =>
       IF FileLines(files[1].content) > GodObjectLines
       THEN /\ Len(GodObjectFindings) = 1
            /\ GodObjectFindings[1].line = 1
            /\ Len(VcGodObjectDiagnostics) = 1
            /\ VcGodObjectDiagnostics[1].line = 0
       ELSE /\ GodObjectFindings = <<>>
            /\ VcGodObjectDiagnostics = <<>>

\* What the rule does: it fires when the text has at least 1000 line feeds,
\* that is, when split('\n') has more than 1000 pieces.
FiresOnThousandLineFeeds ==
    report # <<>> =>
       IF NewlinesBefore(files[1].content, Len(files[1].content)) >= GodObjectLines
       THEN /\ Len(GodObjectFindings) = 1
            /\ GodObjectFindings[1].line = 1
            /\ Len(VcGodObjectDiagnostics) = 1
            /\ VcGodObjectDiagnostics[1].line = 0
       ELSE /\ GodObjectFindings = <<>>
            /\ VcGodObjectDiagnostics = <<>>


---------------------------------------------------------------------------
(* Claims about the severity of a rule id *)

\* The findings of all the reports the ReadyOrNot calls hold.
ScanFindings ==
    UNION {Range(roCalls[c].report[1].vulnerabilities) :
              c \in {k \in 1..MaxCalls : roCalls[k].st # "idle"}}

\* The label of vibecheck's table that names the same severity.
LabelOf(severity) ==
    CASE severity = "ERROR" -> "Error"
      [] severity = "WARNING" -> "Warning"
      [] severity = "INFO" -> "Info"

\* The rule ids of vibecheck's table.
TableIds == {vulnerabilityRules[k].id : k \in 1..Len(vulnerabilityRules)}

\* C25: findings with the same rule id have the same severity, a rule id
\* has one entry in vibecheck's table, and a finding whose rule id is in
\* vibecheck's table has the severity the table displays for that id.
C25_CanonicalSeverity ==
    /\ \A f, g \in ScanFindings : f.id = g.id => f.severity = g.severity
    /\ \A j, k \in 1..Len(vulnerabilityRules) :
          vulnerabilityRules[j].id = vulnerabilityRules[k].id => j = k
    /\ \A f \in ScanFindings :
          f.id \in TableIds => LabelOf(f.severity) = RuleOf(f.id).displaySeverity


---------------------------------------------------------------------------
(* Claims about what deduplication removes *)

\* The blacklisted names a readable manifest lists.
BlacklistedIn(content) ==
    {DepName(content[i]) : i \in 1..Len(content)} \cap blacklistedDeps

\* The finding says the same as g: same rule, file and line, same text.
SameIssue(f, g) ==
    /\ f.id = g.id
    /\ f.file = g.file
    /\ f.line = g.line
    /\ f.detail = g.detail

\* C26: every finding an agent pushed is in the report or has a finding of
\* the same issue there, and a readable package.json has one
\* blacklisted-dependency finding in the report for every blacklisted name
\* it lists.
C26_EveryIssueReported ==
    report # <<>> =>
       /\ \A f \in Range(AllInSourceOrder) :
             \E g \in Range(Reported) : SameIssue(f, g)
       /\ \A n \in 1..Len(files) :
             (IsManifestPath(files[n].fsPath) /\ ~CannotBeRead(files[n].content)) =>
                \A name \in BlacklistedIn(files[n].content) :
                   \E g \in Range(Reported) :
                      /\ g.id = "blacklisted-dependency"
                      /\ g.file = files[n].fsPath
                      /\ g.detail = name


---------------------------------------------------------------------------
(* Claims about scans during a reload of the ignore patterns *)

\* C27: whenever an open or save event makes scanDocument set the
\* diagnostics of a file that .gitignore matches, it sets the empty list,
\* whether or not a loadGitignore() is waiting for its files at that moment.
C27_IgnoredNeverPublished ==
    [][\A d \in DocIds :
          (cmd' = cmd /\ DocPath(d) \in gitignore /\ roDiag'[d] # roDiag[d])
             => roDiag'[d] = << <<>> >>]_vars


---------------------------------------------------------------------------
(* Claims about the agent a finding comes from *)

\* The findings the agents have resolved to, before deduplication.
Pushed == Aggregate(results, 1)

\* C29: the findings an agent resolves to name that agent as their source;
\* no rule id appears in the findings of two agents; in the report the
\* agentSource of a finding is determined by its id; and the findings that
\* deduplication merges, those with the same rule, file and line, come from
\* one agent.
C29_OneAgentPerRule ==
    /\ \A a \in done : \A f \in Range(results[a]) : f.agentSource = a
    /\ \A a, b \in done :
          \A f \in Range(results[a]), g \in Range(results[b]) : f.id = g.id => a = b
    /\ report # <<>> =>
          /\ \A f, g \in Range(Reported) : f.id = g.id => f.agentSource = g.agentSource
          /\ \A i, j \in 1..Len(Pushed) :
                KeyOf(Pushed[i]) = KeyOf(Pushed[j])
                   => Pushed[i].agentSource = Pushed[j].agentSource

\* A report holds findings of all five agents, and deduplication has merged
\* two findings of one agent.
C29_Witness ==
    /\ report # <<>>
    /\ {f.agentSource : f \in Range(Reported)} = Agents
    /\ Len(Reported) < Len(Pushed)


---------------------------------------------------------------------------
(* Claims about the line of a finding *)

\* The lines of a text as split('\n') and the editor count them: one more
\* than its line feeds.
LinesOfText(content) == NewlinesBefore(content, Len(content)) + 1

\* C30: every finding of every report, structural, textual or tied to the
\* whole file, has a line from 1 to the number of lines of the text that
\* was scanned.
C30_LineWithinFile ==
    \A c \in 1..MaxCalls :
        roCalls[c].st # "idle" =>
           \A f \in Range(roCalls[c].report[1].vulnerabilities) :
              /\ f.line >= 1
              /\ f.line <= LinesOfText(roCalls[c].content)

=============================================================================
